---- MODULE Spec2Model ----
(***************************************************************************)
(* LLVMModuleNode (src/codegen/llvm/llvm_module.cc): one module instance,  *)
(* built by codegen.build_llvm, used by several host threads.              *)
(*                                                                         *)
(* Each thread is a caller of PreCompile, GetFunction or of a handle       *)
(* returned by GetFunction.  A call is split at the points where another   *)
(* thread can observe or change ee_, module_ or mutex_: the unsynchronised *)
(* reads of ee_ (lines 37/48 and 116), the lock acquisitions (117, 38/49), *)
(* and the statements of LazyInitJIT.  dmlc's CHECK/LOG(FATAL) throws, so  *)
(* a fatal failure unwinds the caller: lock_guard releases mutex_ and the  *)
(* local EngineBuilder is destroyed with whatever it owns.                 *)
(***************************************************************************)
EXTENDS Integers, Sequences, FiniteSets

\* ------------------------------------------------------------- bounds
NThreads == 2
MaxCalls == 3

Threads == 1..NThreads

\* Names a caller may look up.
Names == {"f", "g"}

\* What build_llvm is given: the lowered functions, and whether code
\* generation puts the module-context global into the unit.
Units == { [funcs |-> << >>, ctx |-> FALSE, tm |-> "tm"],
           [funcs |-> <<"f">>, ctx |-> FALSE, tm |-> "null"],
           [funcs |-> <<"f", "g">>, ctx |-> TRUE, tm |-> "tm"] }

\* Statuses a generated function returns (int ret, line 57).
Statuses == {0, 1, -1}

\* Arguments of SaveToFile(file_name, format): a path is <<stem, suffix>>.
SaveArgs == { <<<<"m", "o">>, "">>, <<<<"m", "">>, "obj">>,
              <<<<"m", "ll">>, "">>, <<<<"m", "">>, "bc">>,
              <<<<"m", "ll">>, "xyz">>, <<<<"m", "xyz">>, "">> }

\* llvm::ExecutionEngine *ee_{nullptr}
nullptr == 0
NullAddr == << >>

VARIABLES
  phase,          \* "none" | "ready" | "initFailed"
  exported,       \* function symbols of the code unit (cg.AddFunction)
  hasCtxSlot,     \* the unit exports runtime::symbol::tvm_module_ctx
  layoutEq,       \* selected target's data layout == the unit's data layout
  module_,        \* std::unique_ptr<llvm::Module>: "null" | "unit"
  mptr_,          \* llvm::Module*: "null" | "unit"
  tm_,            \* llvm::TargetMachine*: "null" | "tm"
  ee_,            \* index into engines, nullptr when unset
  mutex_,         \* nullptr when free, else the thread that holds it
  unitOwner,      \* heap: "none" | "module" | "builder" | "engine" | "freed"
  engines,        \* every engine builder.create returned: [unit, live]
  ctxSlot,        \* value stored in the unit's context slot: "null" | "this"
  pc,             \* per thread: position inside the call in flight
  op,             \* per thread: "GetFunction" | "PreCompile" | "Invoke"
  arg,            \* per thread: the name looked up; <<path, format>> of
                  \* SaveToFile; the status the invoked function returns
  hnd,            \* per thread: the handle being invoked
  res,            \* per thread: how the call ended
  builder,        \* per thread: what the local llvm::EngineBuilder owns
  handles,        \* PackedFuncs returned by GetFunction: [addr, alive]
  refs,           \* use count of the shared_ptr<ModuleNode>
  userRef,        \* the caller still holds the runtime::Module
  dpc,            \* position inside ~LLVMModuleNode
  transfers,      \* executions of line 119
  staticInits,    \* executions of line 132
  staticDtors,    \* executions of line 27
  calls,          \* calls started
  crashed,        \* the process died (undefined behaviour took that outcome)
  overlapped,     \* two lookups were ever in flight together
  file            \* the destination file of SaveToFile: "absent" | "empty" |
                  \* the format written into it

unitVars == <<exported, hasCtxSlot, layoutEq>>
memberVars == <<module_, mptr_, tm_, ee_, mutex_>>
heapVars == <<unitOwner, engines, ctxSlot>>
threadVars == <<pc, op, arg, hnd, res, builder>>
refVars == <<handles, refs, userRef>>
histVars == <<transfers, staticInits, staticDtors, calls, crashed, overlapped>>
vars == <<phase, unitVars, memberVars, heapVars, threadVars, refVars, dpc,
          histVars, file>>

Range(s) == {s[i] : i \in DOMAIN s}

Init ==
  /\ phase = "none"
  /\ exported = {}
  /\ hasCtxSlot = FALSE
  /\ layoutEq = TRUE
  /\ module_ = "null"
  /\ mptr_ = "null"
  /\ tm_ = "null"
  /\ ee_ = nullptr
  /\ mutex_ = nullptr
  /\ unitOwner = "none"
  /\ engines = << >>
  /\ ctxSlot = "null"
  /\ pc = [t \in Threads |-> "idle"]
  /\ op = [t \in Threads |-> "none"]
  /\ arg = [t \in Threads |-> "none"]
  /\ hnd = [t \in Threads |-> 0]
  /\ res = [t \in Threads |-> "none"]
  /\ builder = [t \in Threads |-> "null"]
  /\ handles = << >>
  /\ refs = 0
  /\ userRef = FALSE
  /\ dpc = "none"
  /\ transfers = 0
  /\ staticInits = 0
  /\ staticDtors = 0
  /\ calls = 0
  /\ crashed = FALSE
  /\ overlapped = FALSE
  /\ file = "absent"

\* An Init that takes any function list.
InitAcceptsAny(funcs) == TRUE

\* Line 102: CHECK_NE(funcs.size(), 0U).
InitAccepts(funcs) == Len(funcs) # 0

\* ------------------------------------------------- codegen.build_llvm
\* make_shared<LLVMModuleNode>(), n->Init(funcs, target), *rv = Module(n).
\* Init: CHECK_NE(funcs.size(), 0U); the unit holds one function per
\* definition; module_ = cg.Finish(); mptr_ = module_.get().
BuildLLVM ==
  /\ phase = "none"
  /\ \E u \in Units, leq \in BOOLEAN :
       IF ~InitAccepts(u.funcs)
       THEN /\ phase' = "initFailed"
            /\ tm_' = u.tm
            /\ dpc' = "reset"
            /\ UNCHANGED <<unitVars, module_, mptr_, unitOwner, refs, userRef>>
       ELSE /\ phase' = "ready"
            /\ tm_' = u.tm
            /\ exported' = Range(u.funcs)
            /\ hasCtxSlot' = u.ctx
            /\ layoutEq' = leq
            /\ module_' = "unit"
            /\ mptr_' = "unit"
            /\ unitOwner' = "module"
            /\ refs' = 1
            /\ userRef' = TRUE
            /\ dpc' = "none"
  /\ UNCHANGED <<ee_, mutex_, engines, ctxSlot, file, threadVars, handles,
                 histVars>>

\* ------------------------------------------------- the end of a call
\* The call is over: its frame (the operation, its arguments) is gone and
\* the caller is left with the outcome.
Finish(t, outcome) ==
  /\ pc' = [pc EXCEPT ![t] = "done"]
  /\ res' = [res EXCEPT ![t] = outcome]
  /\ op' = [op EXCEPT ![t] = "none"]
  /\ arg' = [arg EXCEPT ![t] = "none"]
  /\ hnd' = [hnd EXCEPT ![t] = 0]

\* A throw that leaves the mutex with the thrower.
ThrowHolding(t, site) ==
  /\ Finish(t, site)
  /\ UNCHANGED mutex_
  /\ builder' = [builder EXCEPT ![t] = "null"]
  /\ unitOwner' = IF builder[t] = "unit" THEN "freed" ELSE unitOwner

\* A failed CHECK throws out of the member function: the lock_guard of the
\* frame releases mutex_, and LazyInitJIT's EngineBuilder is destroyed
\* together with the unit it still owns.
Throw(t, site) ==
  /\ Finish(t, site)
  /\ mutex_' = IF mutex_ = t THEN nullptr ELSE mutex_
  /\ builder' = [builder EXCEPT ![t] = "null"]
  /\ unitOwner' = IF builder[t] = "unit" THEN "freed" ELSE unitOwner

\* Undefined behaviour that takes the process down.
Crash(t) ==
  /\ crashed' = TRUE
  /\ Finish(t, "Crash")

\* Callers are interchangeable: they are numbered in the order of their
\* first call, so caller t starts only after t - 1 calls were started.
MayStart(t) == pc[t] = "idle" /\ calls < MaxCalls /\ calls >= t - 1

Lookups == {"GetFunction", "PreCompile"}
InLookup(t) == op[t] \in Lookups

\* The operations that only read the unit.
EmitOps == {"SaveToFile", "GetSource", "SaveToBinary"}

\* Caller t is inside a member function, holding the runtime::Module.
InMember(t) == op[t] \in Lookups \cup EmitOps

\* ------------------------------------------- PreCompile / GetFunction
\* A guard that forgets the null test and always enters LazyInitJIT.
AlwaysInit(e) == TRUE

\* Lines 37 and 48: if (ee_ == nullptr) LazyInitJIT();  read without the lock.
NeedsInit(e) == e = nullptr

\* A caller enters PreCompile(name, ctx) or GetFunction(name, sptr_to_self),
\* holding the runtime::Module for the duration of the call; the first
\* statement reads ee_.
Call(t) ==
  /\ ~crashed /\ phase = "ready" /\ dpc = "none" /\ userRef
  /\ MayStart(t)
  /\ \E o \in Lookups, name \in Names :
       /\ op' = [op EXCEPT ![t] = o]
       /\ arg' = [arg EXCEPT ![t] = name]
  /\ pc' = [pc EXCEPT ![t] = IF NeedsInit(ee_) THEN "check" ELSE "lock2"]
  /\ res' = [res EXCEPT ![t] = "none"]
  /\ calls' = calls + 1
  /\ overlapped' = (overlapped \/ \E u \in Threads \ {t} : InLookup(u))
  /\ UNCHANGED <<phase, file, unitVars, memberVars, heapVars, hnd, builder, refVars,
                 dpc, transfers, staticInits, staticDtors, crashed>>

\* Line 116: CHECK(ee_ == nullptr), still without the lock.
LazyCheck(t) ==
  /\ ~crashed /\ pc[t] = "check"
  /\ IF ee_ = nullptr
     THEN /\ pc' = [pc EXCEPT ![t] = "lock"]
          /\ UNCHANGED <<op, arg, hnd, res, builder, mutex_, unitOwner>>
     ELSE Throw(t, "F116")
  /\ UNCHANGED <<phase, file, unitVars, module_, mptr_, tm_, ee_, engines, ctxSlot,
                 refVars, dpc, histVars>>

\* A lock that never waits.
LockAnyway(m) == TRUE

\* std::mutex: lock() returns once no thread holds the mutex.
CanLock(m) == m = nullptr

\* Line 117: std::lock_guard<std::mutex> lock(mutex_).
LazyLock(t) ==
  /\ ~crashed /\ pc[t] = "lock"
  /\ CanLock(mutex_)
  /\ mutex_' = t
  /\ pc' = [pc EXCEPT ![t] = "move"]
  /\ UNCHANGED <<phase, file, unitVars, module_, mptr_, tm_, ee_, heapVars, op, arg,
                 hnd, res, builder, refVars, dpc, histVars>>

\* Lines 118-119: mptr_->getTargetTriple() reads the unit (a freed unit is
\* a dangling read); llvm::EngineBuilder builder(std::move(module_)).
LazyMove(t) ==
  /\ ~crashed /\ pc[t] = "move"
  /\ \E outcome \in (IF unitOwner = "freed" THEN {"go", "crash"} ELSE {"go"}) :
       IF outcome = "crash"
       THEN /\ Crash(t)
            /\ UNCHANGED <<module_, builder, unitOwner, transfers>>
       ELSE /\ builder' = [builder EXCEPT ![t] = module_]
            /\ module_' = "null"
            /\ unitOwner' = IF module_ = "unit" THEN "builder" ELSE unitOwner
            /\ transfers' = transfers + 1
            /\ pc' = [pc EXCEPT ![t] = "layout"]
            /\ UNCHANGED <<op, arg, hnd, res, crashed>>
  /\ UNCHANGED <<phase, file, unitVars, mptr_, tm_, ee_, mutex_, engines, ctxSlot,
                 refVars, dpc, staticInits, staticDtors, calls, overlapped>>

\* A construction that never compares the layouts.
LayoutUnchecked(t) == {"equal"}

\* Lines 122-128: tm = builder.selectTarget(); CHECK(layout ==
\* mptr_->getDataLayout()).  A builder that holds the unit selects the
\* unit's target; one that holds nothing selects the process default, whose
\* layout may or may not equal the unit's.  Reading a freed unit is a
\* dangling read: it crashes, or yields the stale layout, or bytes that no
\* longer spell the target's layout.
LayoutOutcomes(t) ==
  IF unitOwner = "freed"
  THEN (IF layoutEq THEN {"equal", "differ", "crash"} ELSE {"differ", "crash"})
  ELSE IF builder[t] = "unit" THEN (IF layoutEq THEN {"equal"} ELSE {"differ"})
  ELSE {"equal", "differ"}

LazyLayout(t) ==
  /\ ~crashed /\ pc[t] = "layout"
  /\ \E outcome \in LayoutOutcomes(t) :
       CASE outcome = "crash" ->
              /\ Crash(t)
              /\ UNCHANGED <<mutex_, builder, unitOwner>>
         [] outcome = "differ" ->
              /\ Throw(t, "F124")
              /\ UNCHANGED crashed
         [] OTHER ->
              /\ pc' = [pc EXCEPT ![t] = "create"]
              /\ UNCHANGED <<op, arg, hnd, res, mutex_, builder, unitOwner,
                             crashed>>
  /\ UNCHANGED <<phase, file, unitVars, module_, mptr_, tm_, ee_, engines, ctxSlot,
                 refVars, dpc, transfers, staticInits, staticDtors, calls,
                 overlapped>>

\* Line 129: ee_ = builder.create(tm).  With the unit, create returns an
\* engine that owns it, or no engine.  Without a module, create dereferences
\* a null module: undefined behaviour (crash, no engine, or an engine that
\* holds no code).  The previous value of ee_ is overwritten.
CreateOutcomes(t) ==
  IF builder[t] = "unit" THEN {"engine", "none"}
  ELSE {"engine", "none", "crash"}

\* Lines 129-131: ee_ = builder.create(tm); CHECK(ee_ != nullptr).
LazyCreate(t) ==
  /\ ~crashed /\ pc[t] = "create"
  /\ \E outcome \in CreateOutcomes(t) :
       CASE outcome = "crash" ->
              /\ Crash(t)
              /\ UNCHANGED <<ee_, engines, mutex_, builder, unitOwner>>
         [] outcome = "none" ->
              /\ ee_' = nullptr
              /\ Throw(t, "F130")
              /\ UNCHANGED <<engines, crashed>>
         [] OTHER ->
              /\ engines' = Append(engines,
                                   [unit |-> builder[t] = "unit", live |-> TRUE])
              /\ ee_' = Len(engines) + 1
              /\ builder' = [builder EXCEPT ![t] = "null"]
              /\ unitOwner' = IF builder[t] = "unit" THEN "engine" ELSE unitOwner
              /\ pc' = [pc EXCEPT ![t] = "ctors"]
              /\ UNCHANGED <<op, arg, hnd, res, mutex_, crashed>>
  /\ UNCHANGED <<phase, file, unitVars, module_, mptr_, tm_, ctxSlot, refVars, dpc,
                 transfers, staticInits, staticDtors, calls, overlapped>>

\* A construction that never writes the context slot.
CtxSkip(e) == ctxSlot

\* Lines 134-139: the slot's address is looked up in the engine; when the
\* engine's unit has the slot it receives `this`.
CtxWrite(e) == IF engines[e].unit /\ hasCtxSlot THEN "this" ELSE ctxSlot

\* Lines 132-140: ee_->runStaticConstructorsDestructors(false); the context
\* slot, when the engine resolves it, receives `this`; the lock_guard and
\* the builder go out of scope.
LazyCtors(t) ==
  /\ ~crashed /\ pc[t] = "ctors"
  /\ staticInits' = staticInits + 1
  /\ ctxSlot' = CtxWrite(ee_)
  /\ mutex_' = nullptr
  /\ pc' = [pc EXCEPT ![t] = "lock2"]
  /\ UNCHANGED <<phase, file, unitVars, module_, mptr_, tm_, ee_, unitOwner, engines,
                 op, arg, hnd, res, builder, refVars, dpc, transfers,
                 staticDtors, calls, crashed, overlapped>>

\* Lines 38 and 49: std::lock_guard<std::mutex> lock(mutex_).
Lock(t) ==
  /\ ~crashed /\ pc[t] = "lock2"
  /\ CanLock(mutex_)
  /\ mutex_' = t
  /\ pc' = [pc EXCEPT ![t] = "resolve"]
  /\ UNCHANGED <<phase, file, unitVars, module_, mptr_, tm_, ee_, heapVars, op, arg,
                 hnd, res, builder, refVars, dpc, histVars>>

\* ee_->getFunctionAddress(name): the address of an exported function of the
\* unit the engine holds, else null.
GetFunctionAddress(e, name) ==
  IF engines[e].unit /\ name \in exported THEN <<e, name>> ELSE NullAddr

\* A closure that captures only the raw address.
CaptureRaw(r) == r

\* Line 53: the closure copies sptr_to_self.
Capture(r) == r + 1

\* Lines 39-42 (PreCompile) and 50-59 (GetFunction), then the lock_guard
\* goes out of scope.  Calling through a null ee_ is undefined behaviour (a
\* crash, or a null address).
Resolve(t) ==
  /\ ~crashed /\ pc[t] = "resolve"
  /\ \E outcome \in (IF ee_ = nullptr THEN {"crash", "null"} ELSE {"go"}) :
       LET faddr == IF outcome = "go" THEN GetFunctionAddress(ee_, arg[t])
                    ELSE NullAddr
       IN CASE outcome = "crash" ->
                 /\ Crash(t)
                 /\ UNCHANGED <<mutex_, builder, unitOwner, handles, refs>>
            [] op[t] = "PreCompile" /\ faddr = NullAddr ->
                 /\ Throw(t, "F41")
                 /\ UNCHANGED <<crashed, handles, refs>>
            [] op[t] = "PreCompile" /\ faddr # NullAddr ->
                 /\ Finish(t, "Done")
                 /\ mutex_' = nullptr
                 /\ UNCHANGED <<crashed, builder, unitOwner, handles, refs>>
            [] op[t] = "GetFunction" /\ faddr = NullAddr ->
                 /\ Finish(t, "Absent")
                 /\ mutex_' = nullptr
                 /\ UNCHANGED <<crashed, builder, unitOwner, handles, refs>>
            [] OTHER ->
                 /\ handles' = Append(handles, [addr |-> faddr, alive |-> TRUE])
                 /\ refs' = Capture(refs)
                 /\ Finish(t, "Handle")
                 /\ mutex_' = nullptr
                 /\ UNCHANGED <<crashed, builder, unitOwner>>
  /\ UNCHANGED <<phase, file, unitVars, module_, mptr_, tm_, ee_, engines, ctxSlot,
                 userRef, dpc, transfers, staticInits, staticDtors, calls,
                 overlapped>>

\* The caller has taken the outcome and is free for the next call.
Return(t) ==
  /\ ~crashed /\ pc[t] = "done"
  /\ pc' = [pc EXCEPT ![t] = "idle"]
  /\ res' = [res EXCEPT ![t] = "none"]
  /\ UNCHANGED <<phase, file, unitVars, memberVars, heapVars, op, arg, hnd, builder,
                 refVars, dpc, histVars>>

\* ------------------------------- SaveToFile / GetSource / SaveToBinary
\* A caller enters SaveToFile(file_name, format), GetSource(format) or
\* SaveToBinary(stream).  None of them looks at ee_ or takes mutex_.
CallEmit(t) ==
  /\ ~crashed /\ phase = "ready" /\ dpc = "none" /\ userRef
  /\ MayStart(t)
  /\ \/ \E a \in SaveArgs :
          /\ op' = [op EXCEPT ![t] = "SaveToFile"]
          /\ arg' = [arg EXCEPT ![t] = a]
          /\ pc' = [pc EXCEPT ![t] = "open"]
     \/ /\ op' = [op EXCEPT ![t] = "GetSource"]
        /\ pc' = [pc EXCEPT ![t] = "source"]
        /\ UNCHANGED arg
     \/ /\ op' = [op EXCEPT ![t] = "SaveToBinary"]
        /\ pc' = [pc EXCEPT ![t] = "binary"]
        /\ UNCHANGED arg
  /\ res' = [res EXCEPT ![t] = "none"]
  /\ calls' = calls + 1
  /\ UNCHANGED <<phase, file, unitVars, memberVars, heapVars, hnd, builder,
                 refVars, dpc, transfers, staticInits, staticDtors, crashed,
                 overlapped>>

\* runtime::GetFileFormat(file_name, format): the explicit format when one
\* is given, else the suffix of the path.
GetFileFormat(file_name, format) ==
  IF format # "" THEN format ELSE file_name[2]

\* The path as the error messages print it.
PathText(file_name) ==
  IF file_name[2] = "" THEN file_name[1]
  ELSE file_name[1] \o "." \o file_name[2]

\* A SaveToFile that goes to the format dispatch without having opened
\* the file.
SaveOpenLate(t) ==
  /\ ~crashed /\ pc[t] = "open"
  /\ pc' = [pc EXCEPT ![t] = "write"]
  /\ UNCHANGED <<op, arg, hnd, res, file>>
  /\ UNCHANGED <<phase, unitVars, memberVars, heapVars, builder, refVars, dpc,
                 histVars>>

\* Lines 63-66: fmt = GetFileFormat(...); raw_fd_ostream dest(file_name,
\* ecode, F_None) creates or truncates the file; CHECK_EQ(ecode.value(), 0).
SaveOpen(t) ==
  /\ ~crashed /\ pc[t] = "open"
  /\ \E ecode \in {0, 1} :
       IF ecode # 0
       THEN /\ Finish(t, "F65: Cannot open file: " \o PathText(arg[t][1]))
            /\ UNCHANGED file
       ELSE /\ file' = "empty"
            /\ pc' = [pc EXCEPT ![t] = "write"]
            /\ UNCHANGED <<op, arg, hnd, res>>
  /\ UNCHANGED <<phase, unitVars, memberVars, heapVars, builder, refVars, dpc,
                 histVars>>

\* What reading the unit through mptr_ does: a freed unit is a dangling
\* read, which crashes or goes on with whatever the memory holds.
ReadUnit == IF unitOwner = "freed" THEN {"crash", "stale"} ELSE {"ok"}

\* Line 81: the message of the unrecognized-format failure.
UnknownFormat(file_name, format) ==
  "F81: Do not know how to save file " \o PathText(file_name)
    \o " with format='" \o format \o "'"

\* A dispatch whose last branch writes bitcode instead of failing.
SaveOutcomeLenient(file_name, format, fmt, emits) ==
  CASE fmt \in {"o", "obj"} ->
         IF tm_ = "null" THEN "F70"
         ELSE IF ~emits THEN "F71: Cannot emit target CGFT_ObjectFile"
         ELSE "o"
    [] fmt = "ll" -> "ll"
    [] OTHER -> "bc"

\* Lines 67-82: what the format dispatch does before dest.close(): a fatal
\* failure, or the kind of content written from the unit.
SaveOutcome(file_name, format, fmt, emits) ==
  CASE fmt \in {"o", "obj"} ->
         IF tm_ = "null" THEN "F70"
         ELSE IF ~emits THEN "F71: Cannot emit target CGFT_ObjectFile"
         ELSE "o"
    [] fmt = "ll" -> "ll"
    [] fmt = "bc" -> "bc"
    [] OTHER -> UnknownFormat(file_name, format)

\* Lines 67-84.  addPassesToEmitFile answers whether the target can emit
\* object files; the unit is read through mptr_; the stream is closed by
\* dest.close() or, on a failure, by its destructor.
SaveWrite(t) ==
  /\ ~crashed /\ pc[t] = "write"
  /\ \E emits \in BOOLEAN, read \in ReadUnit :
       LET out == SaveOutcome(arg[t][1], arg[t][2],
                              GetFileFormat(arg[t][1], arg[t][2]), emits)
       IN IF out \notin {"o", "ll", "bc"}
          THEN /\ Finish(t, out)
               /\ UNCHANGED <<file, crashed>>
          ELSE IF read = "crash"
          THEN /\ Crash(t)
               /\ UNCHANGED file
          ELSE /\ file' = out
               /\ Finish(t, "Saved")
               /\ UNCHANGED crashed
  /\ UNCHANGED <<phase, unitVars, memberVars, heapVars, builder, refVars, dpc,
                 transfers, staticInits, staticDtors, calls, overlapped>>

\* A GetSource that waits until no thread holds mutex_.
GetSourceLocked(t) ==
  /\ ~crashed /\ pc[t] = "source"
  /\ CanLock(mutex_)
  /\ \E read \in ReadUnit :
       IF mptr_ = "null"
       THEN Finish(t, "F94") /\ UNCHANGED crashed
       ELSE IF read = "crash"
       THEN Crash(t)
       ELSE Finish(t, "Source") /\ UNCHANGED crashed
  /\ UNCHANGED <<phase, file, unitVars, memberVars, heapVars, builder, refVars,
                 dpc, transfers, staticInits, staticDtors, calls, overlapped>>

\* Lines 91-97: CHECK(mptr_ != nullptr); mptr_->print(rso, nullptr).
GetSource(t) ==
  /\ ~crashed /\ pc[t] = "source"
  /\ \E read \in ReadUnit :
       IF mptr_ = "null"
       THEN Finish(t, "F94") /\ UNCHANGED crashed
       ELSE IF read = "crash"
       THEN Crash(t)
       ELSE Finish(t, "Source") /\ UNCHANGED crashed
  /\ UNCHANGED <<phase, file, unitVars, memberVars, heapVars, builder, refVars,
                 dpc, transfers, staticInits, staticDtors, calls, overlapped>>

\* A SaveToBinary that returns normally.
SaveToBinaryQuiet(t) ==
  /\ ~crashed /\ pc[t] = "binary"
  /\ Finish(t, "Done")
  /\ UNCHANGED <<phase, file, unitVars, memberVars, heapVars, builder, refVars,
                 dpc, histVars>>

\* Lines 87-89: LOG(FATAL) << "LLVMModule: SaveToBinary not supported".
SaveToBinary(t) ==
  /\ ~crashed /\ pc[t] = "binary"
  /\ Finish(t, "F88")
  /\ UNCHANGED <<phase, file, unitVars, memberVars, heapVars, builder, refVars,
                 dpc, histVars>>

\* ------------------------------------------------ the returned handle
\* Lines 53-59: the PackedFunc body.  No member of the module is touched
\* and no lock is taken; the generated function runs between the two steps
\* and answers the call's arguments with a status.
Invoke(t) ==
  /\ ~crashed /\ MayStart(t)
  /\ \E h \in DOMAIN handles, ret \in Statuses :
       /\ handles[h].alive
       /\ hnd' = [hnd EXCEPT ![t] = h]
       /\ arg' = [arg EXCEPT ![t] = ret]
  /\ op' = [op EXCEPT ![t] = "Invoke"]
  /\ pc' = [pc EXCEPT ![t] = "call"]
  /\ res' = [res EXCEPT ![t] = "none"]
  /\ calls' = calls + 1
  /\ UNCHANGED <<phase, file, unitVars, memberVars, heapVars, builder, refVars,
                 dpc, transfers, staticInits, staticDtors, crashed, overlapped>>

\* A bridge that ignores the status.
StatusIgnored(ret) == "Ret0"

\* Line 58: CHECK_EQ(ret, 0) << TVMGetLastError(): a non-zero status is a
\* failure that carries the runtime's last error text.
StatusOutcome(ret) == IF ret = 0 THEN "Ret0" ELSE "F58"

\* Lines 54-58: int ret = (*faddr)(values, type_codes, num_args);
\* CHECK_EQ(ret, 0) << TVMGetLastError().
InvokeReturn(t) ==
  /\ ~crashed /\ pc[t] = "call"
  /\ Finish(t, StatusOutcome(arg[t]))
  /\ UNCHANGED <<phase, file, unitVars, memberVars, heapVars, builder, refVars, dpc,
                 histVars>>

\* ---------------------------------------------------------- lifetime
\* The last shared_ptr to go runs ~LLVMModuleNode.
Release(r) == r - 1

\* The caller lets go of the runtime::Module (not during a call on it).
DropModule ==
  /\ ~crashed /\ phase = "ready" /\ dpc = "none" /\ userRef
  /\ \A t \in Threads : ~InMember(t)
  /\ userRef' = FALSE
  /\ refs' = Release(refs)
  /\ dpc' = IF refs' = 0 THEN "reset" ELSE "none"
  /\ UNCHANGED <<phase, file, unitVars, memberVars, heapVars, threadVars, handles,
                 histVars>>

\* The caller destroys a PackedFunc (not while invoking it).
DropHandle(h) ==
  /\ ~crashed /\ handles[h].alive
  /\ \A t \in Threads : ~(pc[t] = "call" /\ hnd[t] = h)
  /\ handles' = [handles EXCEPT ![h].alive = FALSE]
  /\ refs' = Release(refs)
  /\ dpc' = IF refs' = 0 /\ dpc = "none" THEN "reset" ELSE dpc
  /\ UNCHANGED <<phase, file, unitVars, memberVars, heapVars, threadVars, userRef,
                 histVars>>

\* Line 25: module_.reset().
DtorReset ==
  /\ ~crashed /\ dpc = "reset"
  /\ module_' = "null"
  /\ unitOwner' = IF module_ = "unit" THEN "freed" ELSE unitOwner
  /\ dpc' = "statics"
  /\ UNCHANGED <<phase, file, unitVars, mptr_, tm_, ee_, mutex_, engines, ctxSlot,
                 threadVars, refVars, histVars>>

\* A destructor that deletes the engine without running them.
SkipStaticDtors(n) == n

\* Line 27: the static destructors run once more.
RunStaticDtors(n) == n + 1

\* Lines 26-27: if (ee_ != nullptr) ee_->runStaticConstructorsDestructors(true).
DtorStatics ==
  /\ ~crashed /\ dpc = "statics"
  /\ IF ee_ # nullptr
     THEN /\ staticDtors' = RunStaticDtors(staticDtors)
          /\ dpc' = "delete"
     ELSE /\ dpc' = "done"
          /\ UNCHANGED staticDtors
  /\ UNCHANGED <<phase, file, unitVars, memberVars, heapVars, threadVars, refVars,
                 transfers, staticInits, calls, crashed, overlapped>>

\* Line 28: delete ee_; the engine takes the unit it owns with it.
DtorDelete ==
  /\ ~crashed /\ dpc = "delete"
  /\ engines' = [engines EXCEPT ![ee_].live = FALSE]
  /\ unitOwner' = IF engines[ee_].unit THEN "freed" ELSE unitOwner
  /\ dpc' = "done"
  /\ UNCHANGED <<phase, file, unitVars, memberVars, ctxSlot, threadVars, refVars,
                 histVars>>

Next ==
  \/ BuildLLVM
  \/ \E t \in Threads : Call(t)
  \/ \E t \in Threads : LazyCheck(t)
  \/ \E t \in Threads : LazyLock(t)
  \/ \E t \in Threads : LazyMove(t)
  \/ \E t \in Threads : LazyLayout(t)
  \/ \E t \in Threads : LazyCreate(t)
  \/ \E t \in Threads : LazyCtors(t)
  \/ \E t \in Threads : Lock(t)
  \/ \E t \in Threads : Resolve(t)
  \/ \E t \in Threads : Return(t)
  \/ \E t \in Threads : Invoke(t)
  \/ \E t \in Threads : InvokeReturn(t)
  \/ DropModule
  \/ \E h \in DOMAIN handles : DropHandle(h)
  \/ DtorReset
  \/ DtorStatics
  \/ DtorDelete

\* Lookups, invocations and the module's lifetime.
Spec == Init /\ [][Next]_vars

\* The steps of caller t inside PreCompile, GetFunction and LazyInitJIT.
LookupStep(t) ==
  \/ LazyCheck(t) \/ LazyLock(t) \/ LazyMove(t) \/ LazyLayout(t)
  \/ LazyCreate(t) \/ LazyCtors(t) \/ Lock(t) \/ Resolve(t)

\* Every thread that can go on inside a lookup eventually does: the
\* scheduler runs every runnable thread, and a thread blocked in
\* std::mutex::lock is runnable once the mutex is free.
FairSpec == Spec /\ \A t \in Threads : WF_vars(LookupStep(t))

\* The same as Next, with the operations that only read the unit.
EmitNext ==
  \/ Next
  \/ \E t \in Threads : CallEmit(t)
  \/ \E t \in Threads : SaveOpen(t)
  \/ \E t \in Threads : SaveWrite(t)
  \/ \E t \in Threads : GetSource(t)
  \/ \E t \in Threads : SaveToBinary(t)

EmitSpec == Init /\ [][EmitNext]_vars

\* ===================================================================
\* Claims
\* ===================================================================
\* An engine that holds the unit was built.
UnitEngineBuilt == \E e \in DOMAIN engines : engines[e].unit

\* This step ends caller t's call of operation o.
Ends(t, o) == op[t] = o /\ pc'[t] = "done"

\* The engine the module holds resolves name n.
Resolvable(n) == ee_ # nullptr /\ GetFunctionAddress(ee_, n) # NullAddr

\* Caller t is inside LazyInitJIT's locked part or inside symbol resolution.
InCritical(t) == pc[t] \in {"move", "layout", "create", "ctors", "resolve"}

AliveHandles == {h \in DOMAIN handles : handles[h].alive}

\* C1: when lookups race on a module whose engine is not yet built, one
\* construction sequence runs (one transfer, one engine, one run of the
\* static initializers) and every caller gets its handle or a correct
\* absent result: no caller fails or rebuilds because of the race.
C1_OneConstruction ==
  /\ [](UnitEngineBuilt =>
          transfers = 1 /\ Len(engines) = 1 /\ staticInits <= 1)
  /\ [][\A t \in Threads :
          /\ (UnitEngineBuilt /\ Ends(t, "GetFunction")) =>
               res'[t] = IF arg[t] \in exported THEN "Handle" ELSE "Absent"
          /\ (UnitEngineBuilt /\ Ends(t, "PreCompile")) =>
               res'[t] = IF arg[t] \in exported THEN "Done" ELSE "F41"]_vars

\* C2: the unit is moved out of module_ into an engine builder at most
\* once in the life of a module; line 119 never runs a second time.
C2_SingleTransfer == transfers <= 1

C4_EngineReused ==
  ~overlapped =>
    /\ Len(engines) <= 1
    /\ staticInits <= Len(engines)
    /\ ee_ # nullptr =>
         \A t \in Threads :
           pc[t] \notin {"check", "lock", "move", "layout", "create"}
    /\ \A t \in Threads : res[t] # "F116"
    /\ \A h1, h2 \in DOMAIN handles :
         handles[h1].addr[2] = handles[h2].addr[2]
           => handles[h1].addr = handles[h2].addr

\* C4 happened: one caller at a time, two handles for one symbol, then a
\* PreCompile that completed on the same engine.
C4_Witness ==
  /\ ~overlapped
  /\ Len(engines) = 1
  /\ Len(handles) >= 2
  /\ handles[1].addr[2] = handles[2].addr[2]
  /\ \E t \in Threads : res[t] = "Done"

\* C5: on a module whose engine was built from the unit, GetFunction
\* returns an empty handle for a name the unit does not export and a
\* non-empty one for a name it exports; it never fails.
C5_GetFunctionResult ==
  [][\A t \in Threads :
       (UnitEngineBuilt /\ Ends(t, "GetFunction")) =>
         /\ arg[t] \in exported => res'[t] = "Handle"
         /\ arg[t] \notin exported => res'[t] = "Absent"]_vars

\* C6: PreCompile fails exactly when the engine the module holds cannot
\* resolve the name, and completes normally when it can.
C6_PreCompileResult ==
  [][\A t \in Threads :
       Ends(t, "PreCompile") =>
         (res'[t] = "Done" <=> Resolvable(arg[t]))]_vars

\* C7: engine construction and symbol resolution are mutually exclusive:
\* a thread is inside one of them only while it holds mutex_, so at most
\* one thread is; a thread invoking a handle never holds mutex_.
C7_MutualExclusion ==
  /\ \A t \in Threads : InCritical(t) => mutex_ = t
  /\ \A t, u \in Threads : InCritical(t) /\ InCritical(u) => t = u
  /\ \A t \in Threads : pc[t] = "call" => mutex_ # t

\* C7 happened: an invocation is in flight while another thread is inside
\* the locked part of LazyInitJIT.
C7_Witness ==
  \E t, u \in Threads :
    /\ pc[t] = "call"
    /\ pc[u] \in {"move", "layout", "create", "ctors"}
    /\ mutex_ = u

C9_HandleKeepsModule ==
  (phase = "ready" /\ dpc # "none") => (~userRef /\ AliveHandles = {})

\* C9 happened: the caller's Module is gone, a handle is being invoked,
\* and nothing has been torn down.
C9_Witness ==
  /\ ~userRef
  /\ \E t \in Threads : pc[t] = "call" /\ handles[hnd[t]].alive
  /\ dpc = "none"
  /\ \A e \in DOMAIN engines : engines[e].live

\* C10: when the selected target's layout differs from the unit's, every
\* lookup fails at the layout check (or in a dangling read after it): no
\* engine is ever built, no static initializer runs, no handle is returned,
\* and no lookup ends any other way.
C10_LayoutMismatchFatal ==
  ~layoutEq =>
    /\ Len(engines) = 0
    /\ ee_ = nullptr
    /\ staticInits = 0
    /\ Len(handles) = 0
    /\ \A t \in Threads :
         /\ pc[t] \notin {"create", "ctors", "lock2", "resolve"}
         /\ res[t] \notin {"Handle", "Absent", "Done", "F41", "F116", "F130"}

\* C10 happened: the first construction attempt failed at the layout check.
C10_Witness ==
  /\ ~layoutEq
  /\ transfers = 1
  /\ \E t \in Threads : pc[t] = "done" /\ res[t] = "F124"

\* Caller t is inside SaveToFile or GetSource.
Emitting(t) == op[t] \in {"SaveToFile", "GetSource"}

\* C11: SaveToFile and GetSource never hold mutex_ and never wait for it
\* (their next step can be taken whoever holds it), and no step of theirs
\* changes ee_, module_, mptr_, tm_, the owner of the unit or the engines,
\* so the lookups that follow find the module as it was.
C11_EmitFrame ==
  /\ [](\A t \in Threads : Emitting(t) =>
          /\ mutex_ # t
          /\ ~crashed => ENABLED (SaveOpen(t) \/ SaveWrite(t) \/ GetSource(t)))
  /\ [][\A t \in Threads :
          ((Emitting(t) \/ Emitting(t)') /\ pc'[t] # pc[t]) =>
             UNCHANGED <<memberVars, heapVars, unitVars, refVars, dpc>>]_vars

\* C11 happened: a SaveToFile has opened its file and is about to write
\* while another thread holds mutex_ inside LazyInitJIT.
C11_Witness ==
  \E t, u \in Threads :
    /\ pc[t] = "write"
    /\ mutex_ = u
    /\ pc[u] \in {"move", "layout", "create", "ctors"}
    /\ transfers = 1

\* Caller t's SaveToFile is past the open and this step ends it.
SaveEnds(t) == op[t] = "SaveToFile" /\ pc[t] = "write" /\ pc'[t] = "done"

\* C12: SaveToFile writes the unit only for the resolved formats o, obj,
\* ll and bc (object code, text, bitcode); any other resolved format is a
\* fatal failure whose message carries the path and the format argument;
\* object emission is fatal without a target machine, and otherwise ends
\* in object code or in the cannot-emit failure.  A failed call writes
\* nothing.
C12_SaveFormats ==
  [][\A t \in Threads : SaveEnds(t) =>
       LET file_name == arg[t][1]
           format == arg[t][2]
           fmt == IF format = "" THEN file_name[2] ELSE format
           path == IF file_name[2] = "" THEN file_name[1]
                   ELSE file_name[1] \o "." \o file_name[2]
       IN /\ fmt \notin {"o", "obj", "ll", "bc"} =>
               res'[t] = "F81: Do not know how to save file " \o path
                           \o " with format='" \o format \o "'"
          /\ (fmt \in {"o", "obj"} /\ tm_ = "null") => res'[t] = "F70"
          /\ (fmt \in {"o", "obj"} /\ tm_ # "null" /\ ~crashed') =>
               res'[t] \in {"Saved", "F71: Cannot emit target CGFT_ObjectFile"}
          /\ (fmt \in {"ll", "bc"} /\ ~crashed') => res'[t] = "Saved"
          /\ res'[t] = "Saved" =>
               file' = IF fmt \in {"o", "obj"} THEN "o" ELSE fmt
          /\ res'[t] # "Saved" => file' = file]_vars

\* C12 happened: one SaveToFile wrote the unit and another failed on the
\* format inferred from the suffix of its path.
C12_Witness ==
  \E t, u \in Threads :
    /\ res[t] = "Saved"
    /\ res[u] = "F81: Do not know how to save file m.xyz with format=''"
    /\ ~crashed

\* C13: invoking a handle returns normally on status 0 and fails with the
\* runtime's last error on any other status; it never crashes, leaves the
\* module, its engines and the unit as they were, and the handle (with
\* the engine that holds its code) is alive during and after the call.
C13_InvokeStatus ==
  /\ [](\A t \in Threads : pc[t] = "call" =>
          /\ handles[hnd[t]].alive
          /\ engines[handles[hnd[t]].addr[1]].live
          /\ dpc = "none")
  /\ [][\A t \in Threads : Ends(t, "Invoke") =>
          /\ arg[t] = 0 => res'[t] = "Ret0"
          /\ arg[t] # 0 => res'[t] = "F58"
          /\ ~crashed'
          /\ handles'[hnd[t]].alive
          /\ UNCHANGED <<memberVars, heapVars, handles, refs, dpc>>]_vars

\* C13 happened: an invocation failed on its status and the same handle
\* is being invoked by another caller.
C13_Witness ==
  \E t, u \in Threads :
    /\ res[t] = "F58"
    /\ pc[u] = "call"
    /\ Len(handles) = 1
    /\ ~crashed

\* C14: Init with no function fails and leaves no unit and no module to
\* the caller; Init with at least one function leaves a unit owned by
\* module_ with mptr_ pointing at it; a module is initialised once, and
\* mptr_ and the unit's functions never change afterwards.
C14_InitOnce ==
  /\ [](phase = "initFailed" =>
          /\ exported = {} /\ module_ = "null" /\ mptr_ = "null"
          /\ unitOwner = "none" /\ ~userRef /\ refs = 0 /\ ee_ = nullptr)
  /\ [](phase = "ready" =>
          /\ exported # {} /\ mptr_ = "unit" /\ unitOwner # "none"
          /\ (transfers = 0 /\ dpc = "none") =>
               (module_ = "unit" /\ unitOwner = "module"))
  /\ [][phase # "none" =>
          (phase' = phase /\ mptr_' = mptr_ /\ exported' = exported)]_vars

\* C14 happened: build_llvm was given no function and the half-built
\* module was destroyed.
C14_Witness == phase = "initFailed" /\ dpc = "done"

\* The names the module resolves through the engine it holds.
ResolvedNames == {n \in Names : Resolvable(n)}

\* C15: once a GetFunction has returned a handle, and until the module is
\* destroyed, the names the module resolves are exactly the functions the
\* unit was built from, one per definition.
C15_ExactlyNSymbols ==
  (Len(handles) > 0 /\ dpc = "none") =>
     /\ ResolvedNames = exported
     /\ \E u \in Units : Len(u.funcs) = Cardinality(ResolvedNames)
                         /\ Range(u.funcs) = ResolvedNames

\* The same without overlapping lookups.
C15_Sequential == ~overlapped => C15_ExactlyNSymbols

\* C17: a caller that holds a handle from GetFunction, or a completed
\* PreCompile, finds `this` in the context slot when the unit has one; the
\* slot is written only by a construction that built the engine from the
\* unit; a unit without the slot is never written and its construction
\* step still completes.
C17_CtxSlot ==
  /\ \A t \in Threads :
       (res[t] \in {"Handle", "Done"} /\ hasCtxSlot) => ctxSlot = "this"
  /\ ctxSlot = "this" => (hasCtxSlot /\ UnitEngineBuilt /\ staticInits >= 1)
  /\ ~hasCtxSlot => ctxSlot = "null"
  /\ \A t \in Threads :
       (pc[t] = "ctors" /\ ~crashed) => ENABLED LazyCtors(t)

\* C17 happened: one caller holds a handle of a unit with the slot while
\* another has completed a lookup too.
C17_Witness ==
  \E t, u \in Threads :
     /\ t # u /\ res[t] = "Handle" /\ res[u] \in {"Handle", "Done"}
     /\ hasCtxSlot /\ ctxSlot = "this"

\* C17, the unit without the slot: its construction completed and a handle
\* was returned.
C17_NoSlotWitness ==
  \E t \in Threads : res[t] = "Handle" /\ ~hasCtxSlot /\ staticInits = 1

\* C16: a SaveToBinary call is never held up (it takes no lock), its only
\* step ends it with the fatal "SaveToBinary not supported", whether the
\* unit is still with the module, with the engine, or gone with a failed
\* construction, and the step changes no state of the module, no file and
\* no ownership.
C16_SaveToBinaryFatal ==
  /\ [](\A t \in Threads :
          (op[t] = "SaveToBinary" /\ ~crashed) =>
             (pc[t] = "binary" /\ ENABLED SaveToBinary(t)))
  /\ [][\A t \in Threads :
          (op[t] = "SaveToBinary" /\ pc'[t] # pc[t]) =>
             /\ pc'[t] = "done" /\ res'[t] = "F88"
             /\ UNCHANGED <<memberVars, heapVars, unitVars, refVars, dpc,
                            file, phase, crashed>>]_vars

\* C16 happened: SaveToBinary failed on a module whose engine is built and
\* has handed out a handle.
C16_Witness ==
  \E t \in Threads :
     /\ res[t] = "F88" /\ ee_ # nullptr /\ unitOwner = "engine"
     /\ Len(handles) > 0

\* C16 on a module whose unit was never transferred.
C16_FreshWitness ==
  \E t \in Threads : res[t] = "F88" /\ transfers = 0 /\ module_ = "unit"

\* C16 on a module whose construction failed and whose unit is gone.
C16_FailedWitness ==
  \E t \in Threads : res[t] = "F88" /\ unitOwner = "freed"

\* C18: from Init to the start of destruction the unit mptr_ points at is
\* alive and has one owner: module_ before the transfer, the local
\* EngineBuilder during a construction, the engine afterwards; this also
\* after a construction that failed.
C18_UnitAlive ==
  (phase = "ready" /\ dpc = "none") =>
     /\ mptr_ = "unit"
     /\ unitOwner \in {"module", "builder", "engine"}
     /\ (unitOwner = "module") <=> (module_ = "unit")
     /\ (unitOwner = "engine") <=> UnitEngineBuilt
     /\ (unitOwner = "builder") <=> (\E t \in Threads : builder[t] = "unit")

\* C19: a caller holds the mutex only inside LazyInitJIT's body or inside
\* the symbol resolution of PreCompile and GetFunction, so every exit,
\* normal or fatal, has released it; and every caller waiting for the mutex
\* eventually holds it (unless the process has crashed).
C19_MutexReleased ==
  /\ [](~crashed => \A t \in Threads : mutex_ = t => InCritical(t))
  /\ \A t \in Threads :
       (pc[t] \in {"lock", "lock2"}) ~> (mutex_ = t \/ crashed)

\* C19 happened: a caller waits for the mutex, which is free again after
\* another caller's lookup failed fatally while holding it.
C19_Witness ==
  \E t, u \in Threads :
     /\ pc[t] \in {"lock", "lock2"} /\ mutex_ = nullptr
     /\ res[u] \in {"F41", "F124", "F130"} /\ ~crashed

\* The open failures of SaveToFile.
OpenFailures == {"F65: Cannot open file: " \o PathText(a[1]) : a \in SaveArgs}

\* The failures of SaveToFile's format dispatch.
FormatFailures ==
  {"F70", "F71: Cannot emit target CGFT_ObjectFile"}
    \cup {UnknownFormat(a[1], a[2]) : a \in SaveArgs}

\* C20: SaveToFile's first step opens the file: when that fails the call
\* ends there and the file is as it was; when it succeeds the file exists
\* and is empty before the format is looked at.  A call that then fails on
\* the format or on an object-emission check ends after the open and
\* leaves the file it created or emptied.
C20_OpenBeforeFormat ==
  /\ [](\A t \in Threads : pc[t] = "write" => file # "absent")
  /\ [][\A t \in Threads :
          /\ (pc[t] = "open" /\ pc'[t] = "write") => file' = "empty"
          /\ (pc[t] = "open" /\ pc'[t] = "done") =>
                (res'[t] \in OpenFailures /\ file' = file)
          /\ (Ends(t, "SaveToFile") /\ res'[t] \in FormatFailures) =>
                (pc[t] = "write" /\ file # "absent" /\ file' = file)
          /\ (Ends(t, "SaveToFile") /\ res'[t] \in OpenFailures) =>
                pc[t] = "open"]_vars

\* C20 happened: the first call on the module was a SaveToFile with an
\* unrecognized format; it failed and left an empty file behind.
C20_Witness ==
  \E t \in Threads :
     /\ res[t] = UnknownFormat(<<"m", "xyz">>, "") /\ file = "empty"
     /\ calls = 1

====
